---- MODULE Spec2Model ----
(***************************************************************************)
(* Model of backend/main.py of chatgpt-data-viewer: ConversationService    *)
(* (corpus load, by_id / by_date indices, message linearization, the       *)
(* side-car search index) and its read-only query operations.              *)
(*                                                                         *)
(* Encoding of the loosely typed JSON input.  Every JSON value the code    *)
(* inspects is a record with a "kind" field, so that an absent key, a JSON *)
(* null and a wrongly typed value stay distinguishable:                    *)
(*   optional string   <<>> (None / key absent) or <<s>>                   *)
(*   create_time       [kind: absent | null | num | str, v: Int]           *)
(*   author            [kind: absent | null | dict, role, name]            *)
(*   parts             [kind: absent | null | list | num, items: Seq]      *)
(*   content           [kind: absent | null | dict, parts]                 *)
(*   part              [kind: str | text | textnull | content | empty |    *)
(*                      num, s: STRING]                                    *)
(*   message           [kind: absent | null | empty | dict, ...]           *)
(* A mapping (a Python dict, insertion ordered) is a sequence of           *)
(* [node_id, node] entries with distinct node ids.                         *)
(* A date key "YYYY-MM-DD" is the number YYYYMMDD: for four-digit years    *)
(* the order of the zero-padded strings is the order of these numbers.     *)
(* Timestamps are whole seconds.                                           *)
(***************************************************************************)
EXTENDS Integers, Sequences, FiniteSets, TLC

VARIABLES
    data,           \* the parsed content of the file at data_path
    sidecar,        \* the file at data_path + ".index"
    phase,          \* "off" | "loading" | "indexing" | "ready" | "crashed"
    pos,            \* _load_data: index of the next record of data
    conversations,  \* self.conversations
    by_id,          \* self.by_id: id -> index into conversations (a reference)
    by_date,        \* self.by_date: date key -> sequence of references
    search_index,   \* self.search_index
    error,          \* the exception that escaped __init__, "none" if none
    result          \* what the last query returned

vars == <<data, sidecar, phase, pos, conversations, by_id, by_date,
          search_index, error, result>>

\* Longest data file the model loads.
MaxRecords == 2

\* limit: int = 20 of search
DefaultLimit == 20

\* [:10] of get_stats
TopModels == 10

SecondsPerDay == 24 * 60 * 60

-----------------------------------------------------------------------------
(* Sequence helpers *)

Front(s) == SubSeq(s, 1, Len(s) - 1)

Last(s) == s[Len(s)]

\* sum(...), max(...), min(...) of a list of numbers; halving keeps the
\* evaluation shallow on a list of 366 days.
RECURSIVE SumSeq(_)
SumSeq(s) ==
    IF s = <<>> THEN 0
    ELSE IF Len(s) = 1 THEN s[1]
    ELSE LET h == Len(s) \div 2
         IN  SumSeq(SubSeq(s, 1, h)) + SumSeq(SubSeq(s, h + 1, Len(s)))

RECURSIVE MaxSeq(_)
MaxSeq(s) ==
    IF Len(s) = 1 THEN s[1]
    ELSE LET h == Len(s) \div 2
             l == MaxSeq(SubSeq(s, 1, h))
             r == MaxSeq(SubSeq(s, h + 1, Len(s)))
         IN  IF l >= r THEN l ELSE r

RECURSIVE MinSeq(_)
MinSeq(s) ==
    IF Len(s) = 1 THEN s[1]
    ELSE LET h == Len(s) \div 2
             l == MinSeq(SubSeq(s, 1, h))
             r == MinSeq(SubSeq(s, h + 1, Len(s)))
         IN  IF l <= r THEN l ELSE r

\* list.sort / sorted with a numeric key, on [key, val] pairs: a stable merge
\* sort.  Of two sorted runs the merge takes, in turn, the elements of the
\* left run that are not larger than the head of the right run, then the
\* elements of the right run that are smaller than the head of the left run.
RECURSIVE MergeRuns(_, _)
MergeRuns(left, right) ==
    IF left = <<>> THEN right
    ELSE IF right = <<>> THEN left
    ELSE LET l == Cardinality({i \in 1..Len(left) : left[i].key <= right[1].key})
             r == Cardinality({i \in 1..Len(right) : right[i].key < left[1].key})
         IN  IF l > 0
             THEN SubSeq(left, 1, l) \o MergeRuns(SubSeq(left, l + 1, Len(left)), right)
             ELSE SubSeq(right, 1, r) \o MergeRuns(left, SubSeq(right, r + 1, Len(right)))

RECURSIVE StableSort(_)
StableSort(ps) ==
    IF Len(ps) <= 1 THEN ps
    ELSE LET h == Len(ps) \div 2
         IN  MergeRuns(StableSort(SubSeq(ps, 1, h)),
                       StableSort(SubSeq(ps, h + 1, Len(ps))))

Values(ps) == [i \in 1..Len(ps) |-> ps[i].val]

\* The numbers of a finite set, smallest first.
RECURSIVE Ascending(_)
Ascending(S) ==
    IF S = {} THEN <<>>
    ELSE LET least == CHOOSE x \in S : \A y \in S : x <= y
         IN  <<least>> \o Ascending(S \ {least})

-----------------------------------------------------------------------------
(* datetime.fromtimestamp(t, tz=timezone.utc) and strftime("%Y-%m-%d") *)

\* Proleptic Gregorian date of the day `z` days after 1970-01-01, by eras of
\* 400 years that begin on a 1 March: day of era, year of era, day of that
\* year, month counted from March.
YearOfEra(doe) ==
    (doe - (doe \div 1460) + (doe \div 36524) - (doe \div 146096)) \div 365

DayOfYear(doe, yoe) == doe - (365 * yoe + (yoe \div 4) - (yoe \div 100))

MonthFromMarch(doy) == (5 * doy + 2) \div 153

CivilDate(era, yoe, doy, mp) ==
    [year  |-> yoe + era * 400 + (IF mp >= 10 THEN 1 ELSE 0),
     month |-> IF mp < 10 THEN mp + 3 ELSE mp - 9,
     day   |-> doy - ((153 * mp + 2) \div 5) + 1]

CivilOfEra(era, doe) ==
    CivilDate(era, YearOfEra(doe), DayOfYear(doe, YearOfEra(doe)),
              MonthFromMarch(DayOfYear(doe, YearOfEra(doe))))

CivilFromDays(z) ==
    CivilOfEra((z + 719468) \div 146097, (z + 719468) % 146097)

WithSecond(date, second) ==
    [year |-> date.year, month |-> date.month, day |-> date.day,
     second |-> second]

FromTimestamp(t) ==
    WithSecond(CivilFromDays(t \div SecondsPerDay), t % SecondsPerDay)

\* f"{year}-{month:02d}-{day:02d}" / strftime("%Y-%m-%d")
FormatDate(y, m, d) == y * 10000 + m * 100 + d

DateOf(dt) == FormatDate(dt.year, dt.month, dt.day)

DateKey(t) == DateOf(FromTimestamp(t))

\* datetime.fromisoformat(date_key).year
IsoYear(date_key) == date_key \div 10000

\* datetime.isoformat() of a UTC datetime
IsoFormatOf(dt) == [date |-> DateOf(dt), time |-> dt.second]

IsoFormat(t) == IsoFormatOf(FromTimestamp(t))

\* calendar.monthrange(year, month)[1]
IsLeap(year) == year % 4 = 0 /\ (year % 100 /= 0 \/ year % 400 = 0)

DaysInMonth(year, month) ==
    IF month = 2 THEN (IF IsLeap(year) THEN 29 ELSE 28)
    ELSE IF month \in {4, 6, 9, 11} THEN 30 ELSE 31

-----------------------------------------------------------------------------
(* _linearize_messages *)

\* `if not msg`: a missing key, a null and an empty dict are all falsy.
Truthy(msg) == msg.kind = "dict"

\* The text one part contributes, or the exception the `+=` raises.
PartText(part) ==
    CASE part.kind = "str"      -> [raised |-> "none", val |-> part.s]
      [] part.kind = "text"     -> [raised |-> "none", val |-> part.s]
      [] part.kind = "textnull" -> [raised |-> "TypeError", val |-> ""]
      [] part.kind = "content"  -> [raised |-> "none", val |-> part.s]
      [] OTHER                  -> [raised |-> "none", val |-> ""]

RECURSIVE Concat(_)
Concat(texts) ==
    IF texts = <<>> THEN "" ELSE texts[1] \o Concat(Tail(texts))

\* A loop whose iterations each yield a value or raise: the values in
\* order, or the exception of the first iteration that raises.
Gather(steps) ==
    IF \E i \in 1..Len(steps) : steps[i].raised /= "none"
    THEN [raised |-> steps[CHOOSE i \in 1..Len(steps) :
                              /\ steps[i].raised /= "none"
                              /\ \A j \in 1..(i - 1) : steps[j].raised = "none"].raised,
          vals   |-> <<>>]
    ELSE [raised |-> "none", vals |-> [i \in 1..Len(steps) |-> steps[i].val]]

ContentTextOf(got) == [raised |-> got.raised, text |-> Concat(got.vals)]

\* `for part in parts: content_text += ...`
ContentText(items) ==
    ContentTextOf(Gather([i \in 1..Len(items) |-> PartText(items[i])]))

\* `m["createTime"] or 0`
SortKey(m) == IF m.createTime.kind = "num" THEN m.createTime.v ELSE 0

\* `content.get("parts", [])`, when content is a dict
PartsOf(content) ==
    IF content.kind = "dict" THEN content.parts
    ELSE [kind |-> "absent", items |-> <<>>]

\* lines 219-229: nothing is read of parts that are falsy
TextOf(parts) ==
    IF parts.kind = "list" THEN ContentText(parts.items)
    ELSE [raised |-> "none", text |-> ""]

\* The exception one iteration raises, in the order of the statements:
\* content.get (216), the loop over parts (221-229), `create_time > 0` (234),
\* author.get (243).
RaisedBy(msg, text) ==
    IF msg.content.kind = "null" THEN "AttributeError"
    ELSE IF PartsOf(msg.content).kind = "num" THEN "TypeError"
    ELSE IF text.raised /= "none" THEN text.raised
    ELSE IF msg.create_time.kind = "str" THEN "TypeError"
    ELSE IF msg.author.kind = "null" THEN "AttributeError"
    ELSE "none"

\* datetime.fromtimestamp(create_time).isoformat() `if create_time and
\* create_time > 0`; the model's timestamps are all in datetime's range.
Timestamp(ct) ==
    IF ct.kind = "num" /\ ct.v > 0 THEN <<IsoFormat(ct.v)>> ELSE <<>>

RecordOf(msg, text) ==
    [raised |-> RaisedBy(msg, text),
     val |->
        [id         |-> msg.id,
         role       |-> IF msg.author.kind = "dict" THEN msg.author.role ELSE <<>>,
         name       |-> IF msg.author.kind = "dict" THEN msg.author.name ELSE <<>>,
         content    |-> text.text,
         createTime |-> IF msg.create_time.kind = "num" THEN msg.create_time
                        ELSE [kind |-> "none", v |-> 0],
         timestamp  |-> Timestamp(msg.create_time)]]

\* One loop iteration for a node that carries a message: the record appended,
\* or the exception raised on the way.
MessageRecord(msg) == RecordOf(msg, TextOf(PartsOf(msg.content)))

\* _linearize_messages without its final sort: the messages in the order of
\* the dict.  C1 tells it from SortMessages.
InsertionOrder(ms) == ms

\* messages.sort(key=lambda m: m["createTime"] or 0)
SortMessages(ms) ==
    Values(StableSort([i \in 1..Len(ms) |-> [key |-> SortKey(ms[i]), val |-> ms[i]]]))

\* The nodes the loop does not skip, in the order of the dict.
RECURSIVE Payloads(_)
Payloads(mapping) ==
    IF mapping = <<>> THEN <<>>
    ELSE (IF Truthy(mapping[1].node.message)
          THEN <<mapping[1].node.message>> ELSE <<>>)
         \o Payloads(Tail(mapping))

MessageRecords(msgs) == Gather([i \in 1..Len(msgs) |-> MessageRecord(msgs[i])])

SortedIfReturned(got) ==
    [raised |-> got.raised,
     messages |-> IF got.raised = "none" THEN SortMessages(got.vals) ELSE <<>>]

_linearize_messages(mapping) == SortedIfReturned(MessageRecords(Payloads(mapping)))

-----------------------------------------------------------------------------
(* The raw records a data file is made of *)

Str(s) == [kind |-> "str", s |-> s]

Num(v) == [kind |-> "num", v |-> v]

Missing == [kind |-> "absent", v |-> 0]

Null == [kind |-> "null", v |-> 0]

Author(role) == [kind |-> "dict", role |-> <<role>>, name |-> <<>>]

NoAuthor == [kind |-> "absent", role |-> <<>>, name |-> <<>>]

NullAuthor == [kind |-> "null", role |-> <<>>, name |-> <<>>]

Parts(items) == [kind |-> "list", items |-> items]

Content(parts) == [kind |-> "dict", parts |-> parts]

NoContent == [kind |-> "absent", parts |-> [kind |-> "absent", items |-> <<>>]]

NullContent == [kind |-> "null", parts |-> [kind |-> "absent", items |-> <<>>]]

Message(id, author, content, ct) ==
    [kind |-> "dict", id |-> <<id>>, author |-> author, content |-> content,
     create_time |-> ct]

\* a node without a "message" key, with "message": null, with "message": {}
Hollow(kind) ==
    [kind |-> kind, id |-> <<>>, author |-> NoAuthor, content |-> NoContent,
     create_time |-> Missing]

Node(node_id, msg) == [node_id |-> node_id, node |-> [message |-> msg]]

\* The example of the specification, its nodes stored newest first.
TripMapping ==
    << Node("root", Hollow("absent")),
       Node("n2", Message("m2", Author("assistant"),
                          Content(Parts(<<Str("World")>>)), Num(1700000002))),
       Node("n1", Message("m1", Author("user"),
                          Content(Parts(<<Str("Hello")>>)), Num(1700000001))) >>

\* Well-formed but irregular: structured parts, parts that contribute
\* nothing, no author, no content, null and missing create_time, a zero and
\* a negative create_time, empty and null payloads.
MixedMapping ==
    << Node("a", Message("ma", Author("tool"),
                         Content(Parts(<< [kind |-> "text", s |-> "code"],
                                          [kind |-> "empty", s |-> ""],
                                          [kind |-> "content", s |-> "img"],
                                          [kind |-> "num", s |-> ""] >>)),
                         Num(7))),
       Node("b", Hollow("empty")),
       Node("c", Message("mc", NoAuthor, NoContent, Missing)),
       Node("d", Message("md", Author("user"),
                         Content([kind |-> "null", items |-> <<>>]), Num(0 - 3))),
       Node("e", Hollow("null")),
       Node("f", Message("mf", Author("user"),
                         Content(Parts(<<Str("zero")>>)), Num(0))),
       Node("g", Message("mg", Author("user"),
                         Content(Parts(<<>>)), Null)) >>

SingleMapping ==
    << Node("s", Message("ms", Author("user"),
                         Content(Parts(<<Str("again")>>)), Num(1704067000))) >>

\* "author": null
NullAuthorMapping ==
    << Node("x", Message("mx", NullAuthor,
                         Content(Parts(<<Str("hi")>>)), Num(1709164801))) >>

\* "create_time": "yesterday" after a sound message
BadTimeMapping ==
    << Node("y1", Message("my1", Author("user"),
                          Content(Parts(<<Str("ok")>>)), Num(5))),
       Node("y2", Message("my2", Author("user"),
                          Content(Parts(<<Str("late")>>)),
                          [kind |-> "str", v |-> 0])) >>

Raw(id, conversation_id, title, ct, update_time, slug, mapping) ==
    [id |-> id, conversation_id |-> conversation_id, title |-> title,
     create_time |-> ct, update_time |-> update_time,
     default_model_slug |-> slug, mapping |-> mapping, is_archived |-> <<>>]

\* 2023-11-14 22:13:20, 2023-11-14 00:00:00, 2023-12-31 23:59:59,
\* 2024-01-01 00:00:00 and 2024-02-29 00:00:00 (UTC).
RawRecords ==
    { Raw(<<"c1">>, <<>>, <<"Trip planning">>, Num(1700000000), Num(1700000500),
          <<"gpt-4">>, <<TripMapping>>),
      Raw(<<"c2">>, <<"other">>, <<>>, Num(1699920000), Missing,
          <<>>, <<MixedMapping>>),
      Raw(<<"c1">>, <<>>, <<"">>, Num(1704067199), Missing,
          <<"gpt-4o">>, <<SingleMapping>>),
      Raw(<<"c3">>, <<>>, <<"No time">>, Missing, Num(1700000000),
          <<"gpt-4">>, <<TripMapping>>),
      Raw(<<>>, <<"c4">>, <<"Null time">>, Null, Missing,
          <<"">>, <<SingleMapping>>),
      Raw(<<>>, <<"c4">>, <<"Leap day">>, Num(1709164800), Missing,
          <<"gpt-4o">>, <<NullAuthorMapping>>),
      Raw(<<>>, <<>>, <<"New year">>, Num(1704067200), Missing,
          <<"gpt-4">>, <<>>),
      Raw(<<"c5">>, <<>>, <<"Bad time">>, Num(1700000001), Missing,
          <<"gpt-4o">>, <<BadTimeMapping>>) }

RECURSIVE SeqsUpTo(_, _)
SeqsUpTo(S, n) ==
    IF n = 0 THEN {<<>>}
    ELSE LET shorter == SeqsUpTo(S, n - 1)
         IN  shorter \cup {Append(s, r) : s \in shorter, r \in S}

DataFiles == SeqsUpTo(RawRecords, MaxRecords)

-----------------------------------------------------------------------------
(* ConversationService.__init__ and _load_data *)

EmptyDict == [k \in {} |-> 0]

NoIndex == [kind |-> "none", docs |-> <<>>]

NoResult == [op |-> "none"]

\* dict.get(key, default) on an optional field
GetOr(field, default) == IF field = <<>> THEN default ELSE field[1]

\* Conversation(...) of lines 87-95; only called with a numeric create_time.
Conversation(conv) ==
    [id          |-> GetOr(conv.id, GetOr(conv.conversation_id, "")),
     title       |-> GetOr(conv.title, ""),
     create_time |-> conv.create_time.v,
     update_time |-> IF conv.update_time.kind = "num" THEN conv.update_time.v
                     ELSE conv.create_time.v,
     model       |-> conv.default_model_slug,
     mapping     |-> GetOr(conv.mapping, <<>>),
     is_archived |-> GetOr(conv.is_archived, FALSE)]

\* self.by_date[date_key].append(c) on a defaultdict(list)
AppendToBucket(buckets, date_key, ref) ==
    IF date_key \in DOMAIN buckets
    THEN [buckets EXCEPT ![date_key] = Append(@, ref)]
    ELSE (date_key :> <<ref>>) @@ buckets

\* The loop body without lines 84-85: a record without create_time is stored
\* with the time 0.  C8 tells it from IngestRecord.
IngestEveryRecord(store, conv) ==
    [conversations |-> Append(store.conversations, Conversation(conv)),
     by_id         |-> (Conversation(conv).id :> (Len(store.conversations) + 1))
                          @@ store.by_id,
     by_date       |-> AppendToBucket(store.by_date,
                                      DateKey(Conversation(conv).create_time),
                                      Len(store.conversations) + 1)]

\* The body of the loop of _load_data for one record: the store after it.
IngestRecord(store, conv) ==
    IF conv.create_time.kind \in {"absent", "null"}
    THEN store
    ELSE LET c   == Conversation(conv)
             ref == Len(store.conversations) + 1
         IN  [conversations |-> Append(store.conversations, c),
              by_id         |-> (c.id :> ref) @@ store.by_id,
              by_date       |-> AppendToBucket(store.by_date,
                                               DateKey(c.create_time), ref)]

Store == [conversations |-> conversations, by_id |-> by_id, by_date |-> by_date]

\* A process starts: the attribute initialisers of __init__ (lines 70-73).
Start ==
    /\ phase = "off"
    /\ phase' = "loading"
    /\ pos' = 1
    /\ conversations' = <<>>
    /\ by_id' = EmptyDict
    /\ by_date' = EmptyDict
    /\ search_index' = NoIndex
    /\ error' = "none"
    /\ result' = NoResult
    /\ UNCHANGED <<data, sidecar>>

\* One iteration of `for conv in data`.
LoadRecord ==
    /\ phase = "loading"
    /\ pos <= Len(data)
    /\ LET after == IngestRecord(Store, data[pos])
       IN  /\ conversations' = after.conversations
           /\ by_id' = after.by_id
           /\ by_date' = after.by_date
    /\ pos' = pos + 1
    /\ UNCHANGED <<data, sidecar, phase, search_index, error, result>>

\* The loop is over: _load_data returns and __init__ goes on to the index.
LoadDone ==
    /\ phase = "loading"
    /\ pos > Len(data)
    /\ phase' = "indexing"
    /\ UNCHANGED <<data, sidecar, pos, conversations, by_id, by_date,
                   search_index, error, result>>

-----------------------------------------------------------------------------
(* _load_or_create_index and _save_index *)

\* " ".join(content_parts) over the messages with a non-empty content
RECURSIVE JoinContent(_)
JoinContent(messages) ==
    IF messages = <<>> THEN ""
    ELSE LET rest == JoinContent(Tail(messages)) IN
         IF messages[1].content = "" THEN rest
         ELSE IF rest = "" THEN messages[1].content
         ELSE messages[1].content \o " " \o rest

\* `c.title or ""`, `c.model or ""`
OrEmpty(field) == GetOr(field, "")

DocumentOf(c, lin) ==
    [raised |-> lin.raised,
     val    |-> [id         |-> c.id,
                 title      |-> c.title,
                 content    |-> JoinContent(lin.messages),
                 createTime |-> IsoFormat(c.create_time),
                 model      |-> OrEmpty(c.model)]]

\* The document of one conversation (lines 281-295).
Document(c) == DocumentOf(c, _linearize_messages(c.mapping))

DocumentsOf(got) == [raised |-> got.raised, docs |-> got.vals]

Documents(convs) ==
    DocumentsOf(Gather([i \in 1..Len(convs) |-> Document(convs[i])]))

\* minsearch.Index(...).fit(documents)
Index(docs) == [kind |-> "index", docs |-> docs]

ReadOutcomes == {"ok", "fails"}

\* open(index_path, "wb") fails and leaves the file alone, or pickle.dump
\* fails after the open truncated it, or the artifact is written.
SaveOutcomes == {"ok", "open_fails", "dump_fails"}

\* _save_index: the side-car file after it and the exception it raises.
SaveIndex(index, outcome) ==
    CASE outcome = "ok"         -> [file |-> index, raised |-> "none"]
      [] outcome = "open_fails" -> [file |-> sidecar, raised |-> "OSError"]
      [] OTHER                  -> [file |-> [kind |-> "corrupt", docs |-> <<>>],
                                    raised |-> "OSError"]

\* Lines 270-299: build, fit, save.
CreateIndex(built, save) ==
    IF built.raised /= "none"
    THEN [index |-> Index(<<>>), file |-> sidecar, raised |-> built.raised]
    ELSE [index  |-> Index(built.docs),
          file   |-> SaveIndex(Index(built.docs), save).file,
          raised |-> SaveIndex(Index(built.docs), save).raised]

\* _load_or_create_index, for one outcome of reading and of writing the
\* side-car; an exception that is not caught ends __init__.
_load_or_create_index(read, save) ==
    IF sidecar.kind = "index" /\ read = "ok"
    THEN [index |-> sidecar, file |-> sidecar, raised |-> "none"]
    ELSE CreateIndex(Documents(conversations), save)

InitEnds(done) ==
    /\ search_index' = done.index
    /\ sidecar' = done.file
    /\ error' = done.raised
    /\ phase' = IF done.raised = "none" THEN "ready" ELSE "crashed"

LoadOrCreateIndex ==
    /\ phase = "indexing"
    /\ \E read \in ReadOutcomes, save \in SaveOutcomes :
          InitEnds(_load_or_create_index(read, save))
    /\ UNCHANGED <<data, pos, conversations, by_id, by_date, result>>

-----------------------------------------------------------------------------
(* The query operations *)

\* sum(1 for node in c.mapping.values() if node.get("message"))
RECURSIVE CountMessages(_)
CountMessages(mapping) ==
    IF mapping = <<>> THEN 0
    ELSE (IF Truthy(mapping[1].node.message) THEN 1 ELSE 0)
         + CountMessages(Tail(mapping))

\* model_counts[c.model] += 1 over the conversations with a truthy model:
\* [model, count] entries in the order the models are first met.
RECURSIVE ModelCounts(_)
ModelCounts(convs) ==
    IF convs = <<>> THEN <<>>
    ELSE LET before == ModelCounts(Front(convs))
             m      == OrEmpty(Last(convs).model)
             at     == {i \in 1..Len(before) : before[i].model = m}
         IN  IF m = "" THEN before
             ELSE IF at = {} THEN Append(before, [model |-> m, count |-> 1])
             ELSE [i \in 1..Len(before) |->
                      IF i \in at THEN [before[i] EXCEPT !.count = @ + 1]
                      ELSE before[i]]

\* sorted(model_counts.items(), key=lambda x: -x[1])[:10]
TopModelsOf(counts) ==
    LET ranked == Values(StableSort([i \in 1..Len(counts) |->
                     [key |-> 0 - counts[i].count, val |-> counts[i]]]))
    IN  SubSeq(ranked, 1, IF Len(ranked) < TopModels THEN Len(ranked) ELSE TopModels)

Timestamps(convs) == [i \in 1..Len(convs) |-> convs[i].create_time]

MessageCounts(convs) == [i \in 1..Len(convs) |-> CountMessages(convs[i].mapping)]

get_stats ==
    IF conversations = <<>>
    THEN [op |-> "stats", totalConversations |-> 0, totalMessages |-> 0,
          dateRange |-> [start |-> <<>>, end |-> <<>>], topModels |-> <<>>]
    ELSE [op |-> "stats",
          totalConversations |-> Len(conversations),
          totalMessages |-> SumSeq(MessageCounts(conversations)),
          dateRange |-> [start |-> <<DateKey(MinSeq(Timestamps(conversations)))>>,
                         end   |-> <<DateKey(MaxSeq(Timestamps(conversations)))>>],
          topModels |-> TopModelsOf(ModelCounts(conversations))]

\* The keys of all_days as lines 149-153 insert them.
RECURSIVE DaysThrough(_, _)
DaysThrough(year, month) ==
    IF month = 0 THEN <<>>
    ELSE DaysThrough(year, month - 1)
         \o [day \in 1..DaysInMonth(year, month) |-> FormatDate(year, month, day)]

\* Lines 156-159 without the test of the year: every bucket is assigned.  C5
\* tells it from FilledKeys.
EveryBucket(year) == DOMAIN by_date

\* The keys lines 156-159 assign: the buckets of by_date whose year is `year`.
FilledKeys(year) == {k \in DOMAIN by_date : IsoYear(k) = year}

\* all_days after both loops: a dict keeps a key where it was first set, and
\* a key set for the first time goes to the end.
AllKeys(first, filled) ==
    first \o Ascending(filled \ {first[i] : i \in 1..Len(first)})

Counted(keys, filled) ==
    [i \in 1..Len(keys) |->
        [date  |-> keys[i],
         count |-> IF keys[i] \in filled THEN Len(by_date[keys[i]]) ELSE 0]]

AllDays(year) ==
    Counted(AllKeys(DaysThrough(year, 12), FilledKeys(year)), FilledKeys(year))

Counts(all_days) == [i \in 1..Len(all_days) |-> all_days[i].count]

\* lines 162-168
ContributionOf(year, all_days) ==
    [op |-> "contribution", year |-> year,
     days |-> Values(StableSort([i \in 1..Len(all_days) |->
                 [key |-> all_days[i].date, val |-> all_days[i]]])),
     max |-> IF all_days = <<>> THEN 0 ELSE MaxSeq(Counts(all_days)),
     total |-> SumSeq(Counts(all_days))]

get_contribution(year) == ContributionOf(year, AllDays(year))

\* `c.title or "(no title)"`
TitleOf(c) == IF c.title = "" THEN "(no title)" ELSE c.title

\* self.by_date.get(date, []): a plain read, also on a defaultdict
BucketGet(date) == IF date \in DOMAIN by_date THEN by_date[date] ELSE <<>>

\* sorted(convs, key=lambda c: c.create_time), the sign of the key lost.  C6
\* tells it from SortedNewestFirst.
SortedOldestFirst(refs) ==
    Values(StableSort([i \in 1..Len(refs) |->
              [key |-> conversations[refs[i]].create_time, val |-> refs[i]]]))

\* sorted(convs, key=lambda c: -c.create_time): a new list of references
SortedNewestFirst(refs) ==
    Values(StableSort([i \in 1..Len(refs) |->
              [key |-> 0 - conversations[refs[i]].create_time, val |-> refs[i]]]))

ListEntry(c) ==
    [id |-> c.id, title |-> TitleOf(c), createTime |-> IsoFormat(c.create_time),
     model |-> c.model, messageCount |-> CountMessages(c.mapping)]

Entries(convs_sorted) ==
    [i \in 1..Len(convs_sorted) |-> ListEntry(conversations[convs_sorted[i]])]

get_conversations_by_date(date) ==
    [op |-> "by_date", date |-> date,
     conversations |-> Entries(SortedNewestFirst(BucketGet(date)))]

\* None when the id is unknown; else the detail, unless the linearization
\* raises, and then get_conversation raises the same exception.
DetailOf(conv_id, c, lin) ==
    [op |-> "conversation", conv_id |-> conv_id, found |-> TRUE,
     raised |-> lin.raised, messages |-> lin.messages,
     id |-> c.id, title |-> TitleOf(c),
     createTime |-> IsoFormat(c.create_time),
     updateTime |-> IsoFormat(c.update_time),
     model |-> c.model, isArchived |-> c.is_archived]

get_conversation(conv_id) ==
    IF conv_id \notin DOMAIN by_id
    THEN [op |-> "conversation", conv_id |-> conv_id, found |-> FALSE,
          raised |-> "none", messages |-> <<>>]
    ELSE DetailOf(conv_id, conversations[by_id[conv_id]],
                  _linearize_messages(conversations[by_id[conv_id]].mapping))

\* The documents minsearch may return for a query: at most `limit` of the
\* documents of the index.  Which of them match, and their ranking, is the
\* library's; every choice is allowed here.
SearchResults(limit) ==
    IF search_index.kind = "none" THEN {<<>>}
    ELSE LET docs == search_index.docs IN
         { [i \in 1..Len(order) |-> docs[order[i]]] :
             order \in { o \in UNION {[1..n -> 1..Len(docs)] : n \in 0..Len(docs)} :
                           /\ Len(o) <= limit
                           /\ \A i, j \in DOMAIN o : i < j => o[i] < o[j] } }

Years == {2000, 2023, 2024, 2100}

\* Days with and without conversations, the last day of a month, a day that
\* does not exist and a string that is no date.
Dates == {20231114, 20231231, 20240101, 20240229, 20240228, 20230230, 0}

ConvIds == {"c1", "c2", "c4", "c5", "", "nope"}

Queries == {"trip"}

Limits == {1, DefaultLimit}

GetStats ==
    /\ phase = "ready"
    /\ result' = get_stats
    /\ UNCHANGED <<data, sidecar, phase, pos, conversations, by_id, by_date,
                   search_index, error>>

GetContribution ==
    /\ phase = "ready"
    /\ \E year \in Years : result' = get_contribution(year)
    /\ UNCHANGED <<data, sidecar, phase, pos, conversations, by_id, by_date,
                   search_index, error>>

\* get_conversations_by_date reading self.by_date[date] instead of
\* self.by_date.get(date, []): the defaultdict stores an empty bucket for a
\* date it does not know.  C7 tells it from GetConversationsByDate.
GetConversationsByDateIndexing ==
    /\ phase = "ready"
    /\ \E date \in Dates :
          /\ result' = get_conversations_by_date(date)
          /\ by_date' = IF date \in DOMAIN by_date THEN by_date
                        ELSE (date :> <<>>) @@ by_date
    /\ UNCHANGED <<data, sidecar, phase, pos, conversations, by_id,
                   search_index, error>>

GetConversationsByDate ==
    /\ phase = "ready"
    /\ \E date \in Dates : result' = get_conversations_by_date(date)
    /\ UNCHANGED <<data, sidecar, phase, pos, conversations, by_id, by_date,
                   search_index, error>>

GetConversation ==
    /\ phase = "ready"
    /\ \E conv_id \in ConvIds : result' = get_conversation(conv_id)
    /\ UNCHANGED <<data, sidecar, phase, pos, conversations, by_id, by_date,
                   search_index, error>>

Search ==
    /\ phase = "ready"
    /\ \E query \in Queries, limit \in Limits :
         \E results \in SearchResults(limit) :
            result' = [op |-> "search", query |-> query, limit |-> limit,
                       results |-> results]
    /\ UNCHANGED <<data, sidecar, phase, pos, conversations, by_id, by_date,
                   search_index, error>>

-----------------------------------------------------------------------------
(* The process and its files *)

\* The process ends, after a crash of __init__ or when the server is stopped;
\* its memory is gone, the two files stay.
Stop ==
    /\ phase \in {"ready", "crashed"}
    /\ phase' = "off"
    /\ pos' = 1
    /\ conversations' = <<>>
    /\ by_id' = EmptyDict
    /\ by_date' = EmptyDict
    /\ search_index' = NoIndex
    /\ error' = "none"
    /\ result' = NoResult
    /\ UNCHANGED <<data, sidecar>>

\* Between two runs the user puts a newer export at data_path: the old
\* conversations and one more.
ExportAgain ==
    /\ phase = "off"
    /\ Len(data) < MaxRecords
    /\ \E conv \in RawRecords : data' = Append(data, conv)
    /\ UNCHANGED <<sidecar, phase, pos, conversations, by_id, by_date,
                   search_index, error, result>>

Init ==
    /\ data \in DataFiles
    /\ sidecar \in {[kind |-> "absent", docs |-> <<>>],
                    [kind |-> "corrupt", docs |-> <<>>]}
    /\ phase = "off"
    /\ pos = 1
    /\ conversations = <<>>
    /\ by_id = EmptyDict
    /\ by_date = EmptyDict
    /\ search_index = NoIndex
    /\ error = "none"
    /\ result = NoResult

Next ==
    \/ Start
    \/ LoadRecord
    \/ LoadDone
    \/ LoadOrCreateIndex
    \/ GetStats
    \/ GetContribution
    \/ GetConversationsByDate
    \/ GetConversation
    \/ Search
    \/ Stop
    \/ ExportAgain

Spec == Init /\ [][Next]_vars

-----------------------------------------------------------------------------
(* What the properties below measure the results against.  None of it is  *)
(* used by the operations above: the calendar here counts days from 1970   *)
(* by year and month lengths, where the operations convert by 400-year     *)
(* eras.                                                                   *)

LeapYear(y) == (y % 4 = 0 /\ y % 100 /= 0) \/ y % 400 = 0

MonthLength(y, m) ==
    CASE m \in {1, 3, 5, 7, 8, 10, 12} -> 31
      [] m \in {4, 6, 9, 11}           -> 30
      [] OTHER                         -> IF LeapYear(y) THEN 29 ELSE 28

YearLength(y) == IF LeapYear(y) THEN 366 ELSE 365

\* Days from 1970-01-01 to 1 January of y (y >= 1970).
JanFirst(y) == 365 * (y - 1970) + Cardinality({k \in 1970..(y - 1) : LeapYear(k)})

LabelYear(date) == date \div 10000

LabelMonth(date) == (date \div 100) % 100

LabelDay(date) == date % 100

\* The label names a day of the calendar, 1970 or later.
ValidLabel(date) ==
    /\ LabelYear(date) >= 1970
    /\ LabelMonth(date) \in 1..12
    /\ LabelDay(date) \in 1..MonthLength(LabelYear(date), LabelMonth(date))

RECURSIVE DaysBeforeMonth(_, _)
DaysBeforeMonth(y, m) ==
    IF m = 1 THEN 0 ELSE DaysBeforeMonth(y, m - 1) + MonthLength(y, m - 1)

\* 1 for 1 January.
OrdinalInYear(date) ==
    DaysBeforeMonth(LabelYear(date), LabelMonth(date)) + LabelDay(date)

\* The UTC day, counted from 1970-01-01, a time stamp falls on.
UtcDay(t) == t \div 86400

\* The stored conversations created on UTC day number `day`.
CreatedOn(day) ==
    {k \in 1..Len(conversations) : UtcDay(conversations[k].create_time) = day}

\* The stored conversations created on the day a date string names; none
\* when the string names no day.
CreatedOnLabel(date) ==
    IF ValidLabel(date)
    THEN CreatedOn(JanFirst(LabelYear(date)) + OrdinalInYear(date) - 1)
    ELSE {}

\* A message's raw createTime, a missing one taken as 0.
TimeOrZero(m) == IF m.createTime.kind = "num" THEN m.createTime.v ELSE 0

\* The nodes of a mapping that carry a message payload.
PayloadNodes(mapping) ==
    {i \in 1..Len(mapping) : mapping[i].node.message.kind = "dict"}

\* No payload of the mapping has a null or wrongly typed field.
SoundPayload(msg) ==
    /\ msg.author.kind /= "null"
    /\ msg.content.kind /= "null"
    /\ msg.content.parts.kind /= "num"
    /\ \A i \in 1..Len(msg.content.parts.items) :
          msg.content.parts.items[i].kind /= "textnull"
    /\ msg.create_time.kind /= "str"

SoundMapping(mapping) ==
    \A i \in PayloadNodes(mapping) : SoundPayload(mapping[i].node.message)

HasCreateTime(conv) == conv.create_time.kind = "num"

\* What `conv.get("id", conv.get("conversation_id", ""))` is meant to give.
RawId(conv) ==
    IF conv.id /= <<>> THEN conv.id[1]
    ELSE IF conv.conversation_id /= <<>> THEN conv.conversation_id[1]
    ELSE ""

Started == phase \in {"loading", "indexing", "ready", "crashed"}

Loaded == phase \in {"indexing", "ready", "crashed"}

-----------------------------------------------------------------------------
(* C1 *)

-----------------------------------------------------------------------------
(* C2 *)

\* C2: after the load, ids are unique across the store and by_id has exactly
\* one entry per ingested conversation: as many entries as conversations,
\* and each conversation is what by_id returns for its id.
C2_OneEntryPerConversation ==
    Loaded =>
        /\ Cardinality(DOMAIN by_id) = Len(conversations)
        /\ \A i \in 1..Len(conversations) : by_id[conversations[i].id] = i

-----------------------------------------------------------------------------
(* C3 *)

\* C3: no failure to read or to write the side-car ends the startup: it never
\* ends with the exception of the side-car I/O, and a startup that found
\* the side-car unusable ends with a search index.
C3_SidecarFailureNotFatal ==
    /\ ~(phase = "crashed" /\ error = "OSError")
    /\ phase = "ready" => search_index.kind = "index"

-----------------------------------------------------------------------------
(* C4 *)

\* C4: _linearize_messages raises for no stored mapping, whatever fields of
\* its payloads are absent, null or wrongly typed: no startup ends with its
\* exception and no get_conversation raises.
C4_LinearizeNeverRaises ==
    /\ error \notin {"AttributeError", "TypeError"}
    /\ result.op = "conversation" => result.raised = "none"

-----------------------------------------------------------------------------
(* C5 *)

\* C5: get_contribution(year) returns one entry per calendar day of the year
\* (365, or 366 in a leap year), in ascending date order; the count of a day
\* is the number of stored conversations created on that UTC day; total is
\* the sum of the counts, max the largest count; no day of another year
\* appears, whatever buckets by_date has.
C5_ContributionPerDay ==
    result.op = "contribution" =>
        LET year  == result.year
            days  == result.days
            first == JanFirst(year)
        IN  /\ Len(days) = YearLength(year)
            /\ \A i \in 1..(Len(days) - 1) : days[i].date < days[i + 1].date
            /\ \A i \in 1..Len(days) :
                  /\ LabelYear(days[i].date) = year
                  /\ ValidLabel(days[i].date)
                  /\ OrdinalInYear(days[i].date) = i
                  /\ days[i].count = Cardinality(CreatedOn(first + i - 1))
            /\ result.total =
                 Cardinality({k \in 1..Len(conversations) :
                                 /\ UtcDay(conversations[k].create_time) >= first
                                 /\ UtcDay(conversations[k].create_time)
                                      < first + YearLength(year)})
            /\ \A i \in 1..Len(days) : days[i].count <= result.max
            /\ \E i \in 1..Len(days) : days[i].count = result.max

\* The heatmap of a leap year with conversations was computed while by_date
\* also held a bucket of another year.
C5_Witness ==
    /\ result.op = "contribution"
    /\ result.year = 2024
    /\ result.total >= 1
    /\ Len(result.days) = 366
    /\ \E k \in DOMAIN by_date : k < 20240000

-----------------------------------------------------------------------------
(* C6 *)

\* C6: get_conversations_by_date(date) returns, newest first, exactly the
\* stored conversations created on the UTC day the date names, each once, and
\* an empty list when there is none.
C6_ByDateExactAndNewestFirst ==
    result.op = "by_date" =>
        LET es   == result.conversations
            want == CreatedOnLabel(result.date)
        IN  /\ \A i \in 1..(Len(es) - 1) : es[i].createTime.time >= es[i + 1].createTime.time
            /\ Len(es) = Cardinality(want)
            /\ \E f \in [1..Len(es) -> want] :
                  /\ \A i, j \in 1..Len(es) : i /= j => f[i] /= f[j]
                  /\ \A i \in 1..Len(es) :
                        /\ es[i].id = conversations[f[i]].id
                        /\ es[i].createTime.date = result.date
                        /\ es[i].createTime.time = conversations[f[i]].create_time % 86400

\* A day with two conversations, stored oldest first, was listed.
C6_Witness ==
    /\ result.op = "by_date"
    /\ Len(result.conversations) = 2
    /\ result.date \in DOMAIN by_date
    /\ conversations[by_date[result.date][1]].create_time
         < conversations[by_date[result.date][2]].create_time

-----------------------------------------------------------------------------
(* C7 *)

\* C7: once the service is ready, no query changes conversations (and so no
\* mapping), by_id, by_date or the search index, also when the date or the
\* id asked for is not in the store.
C7_QueriesReadOnly ==
    [][(phase = "ready" /\ phase' = "ready") =>
          UNCHANGED <<conversations, by_id, by_date, search_index>>]_vars

\* A date without a bucket was looked up, and an id that is not stored.
C7_Witness ==
    /\ phase = "ready"
    /\ conversations /= <<>>
    /\ \/ result.op = "by_date" /\ result.date \notin DOMAIN by_date
       \/ result.op = "conversation" /\ ~result.found

-----------------------------------------------------------------------------
(* C8 *)

KeptSoFar == SelectSeq(SubSeq(data, 1, pos - 1), HasCreateTime)

RECURSIVE BucketSizes(_)
BucketSizes(keys) ==
    IF keys = {} THEN 0
    ELSE LET k == CHOOSE x \in keys : TRUE
         IN  Len(by_date[k]) + BucketSizes(keys \ {k})

\* C8: a record without create_time (absent or null) is skipped without an
\* error and without a trace in conversations, by_id and by_date, and the
\* records after it are ingested: at every point of the load the store holds
\* exactly the records read so far that have a create_time, in their order.
C8_RecordsWithoutTimeSkipped ==
    Started =>
        /\ phase = "loading" => error = "none"
        /\ Len(conversations) = Len(KeptSoFar)
        /\ \A i \in 1..Len(conversations) :
              /\ conversations[i].id = RawId(KeptSoFar[i])
              /\ conversations[i].create_time = KeptSoFar[i].create_time.v
        /\ DOMAIN by_id = {RawId(KeptSoFar[i]) : i \in 1..Len(KeptSoFar)}
        /\ BucketSizes(DOMAIN by_date) = Len(KeptSoFar)

\* A record without create_time was read, and the record after it ingested.
C8_Witness ==
    /\ phase = "indexing"
    /\ Len(data) = 2
    /\ ~HasCreateTime(data[1])
    /\ HasCreateTime(data[2])
    /\ Len(conversations) = 1

-----------------------------------------------------------------------------
(* C9 *)

RECURSIVE DetailLengths(_)
DetailLengths(convs) ==
    IF convs = <<>> THEN 0
    ELSE Len(get_conversation(convs[1].id).messages) + DetailLengths(Tail(convs))

\* C9: the two ways of counting messages agree: the messageCount of every
\* entry get_conversations_by_date emits is the number of messages
\* get_conversation returns for the entry's id, and totalMessages of
\* get_stats is the sum of those numbers over the stored conversations.
C9_CountsAgree ==
    /\ result.op = "by_date" =>
          \A i \in 1..Len(result.conversations) :
             /\ get_conversation(result.conversations[i].id).raised = "none"
             /\ result.conversations[i].messageCount
                  = Len(get_conversation(result.conversations[i].id).messages)
    /\ result.op = "stats" =>
          result.totalMessages = DetailLengths(conversations)

-----------------------------------------------------------------------------
(* C10 *)

\* C10: after every startup the search index in use describes the corpus
\* that startup loaded: the ids of its documents are the ids of the stored
\* conversations, and every id a search returns is one get_conversation finds.
C10_IndexDescribesCorpus ==
    /\ phase = "ready" =>
          {search_index.docs[i].id : i \in 1..Len(search_index.docs)}
             = {conversations[i].id : i \in 1..Len(conversations)}
    /\ result.op = "search" =>
          \A i \in 1..Len(result.results) :
             get_conversation(result.results[i].id).found

====
